---- MODULE Spec2Model ----
(***************************************************************************)
(* Palette calculator (src/calculator.go, final revision, lines 378-712):  *)
(* RGB <-> HSL conversion, hue rotation and the four harmony schemes       *)
(* (specification Spec), CalculatePredominantColor with its collaborators  *)
(* (specification SpecIO), and concurrent calls of the conversions and     *)
(* schemes on one PaletteCalculator (specification SpecGo).                *)
(*                                                                         *)
(* Numbers.  The program computes in float64.  The model computes the same *)
(* quantities exactly, in fixed point:                                     *)
(*   - a colour channel (Red, Green, Blue) is held in hundredths, so 2400  *)
(*     is 24.0 and 510 is 5.1 (the achromatic branch of ConvertHSLToRGB    *)
(*     returns luminosity * 255 unrounded, a multiple of 0.01 * 255);      *)
(*   - hue is held in whole degrees (the program only produces whole       *)
(*     degrees: floats.Round(hue*60, 0) plus whole offsets);               *)
(*   - saturation and luminosity are held in hundredths (the program       *)
(*     rounds both to 2 decimals).                                         *)
(* floats.Round rounds half away from zero.  Where the rounded quantity is *)
(* an exact decimal tie, the float64 evaluation can land just below the    *)
(* tie and round toward zero instead; the ...BelowTie definitions list the *)
(* arguments where float64 does so.                                        *)
(***************************************************************************)
EXTENDS Integers, Sequences, FiniteSets, TLC

RGBMax == 255

Abs(x) == IF x < 0 THEN -x ELSE x

Min2(a, b) == IF a < b THEN a ELSE b

Max2(a, b) == IF a > b THEN a ELSE b

\* floats.Min / floats.Max over the three channels
Min3(a, b, c) == Min2(a, Min2(b, c))

Max3(a, b, c) == Max2(a, Max2(b, c))

\* n/d (d > 0) lies exactly half way between two integers
IsTie(n, d) == (2 * Abs(n)) % (2 * d) = d

\* floats.Round of the quotient n/d (d > 0) to an integer: half away from
\* zero; below = TRUE when float64 holds a value just under an exact tie.
Round(n, d, below) ==
    LET a == Abs(n)
        q == IF below /\ IsTie(n, d) THEN a \div d ELSE (2 * a + d) \div (2 * d)
    IN  IF n < 0 THEN -q ELSE q


(***************************************************************************)
(* Rendering: generateHex (strconv.FormatInt(int64(x), 16), joined)        *)
(***************************************************************************)
HexDigits == "0123456789abcdef"

\* int64(x) of a channel held in hundredths: truncation toward zero
Int64(x) == IF x < 0 THEN -((-x) \div 100) ELSE x \div 100

RECURSIVE FormatNat(_)
FormatNat(n) ==
    IF n < 16 THEN SubSeq(HexDigits, n + 1, n + 1)
    ELSE FormatNat(n \div 16) \o SubSeq(HexDigits, (n % 16) + 1, (n % 16) + 1)

\* strconv.FormatInt(i, 16): minimal digits, no padding, "-" for negatives
FormatInt(i) == IF i < 0 THEN "-" \o FormatNat(-i) ELSE FormatNat(i)

generateHex(r, g, b) ==
    FormatInt(Int64(r)) \o FormatInt(Int64(g)) \o FormatInt(Int64(b))

(***************************************************************************)
(* RGB -> HSL                                                              *)
(***************************************************************************)
\* floats.Round(v / RGBMax, 3) in thousandths, v a channel in hundredths
Round3(v) == Round(10 * v, RGBMax, FALSE)

\* float64: the saturation quotient for max = 199, min = 148 is held just
\* below the tie 0.3125 (the only such pair of whole channels)
SatBelowTie(max, min) == max = 19900 /\ min = 14800

\* float64: floats.Round(k/1000, 2) computes k/1000*100 just below k/10 for
\* these k (saturation already rounded to 3 decimals, in thousandths)
Round2BelowTie == {145, 285, 565, 575, 1005, 1015, 1025, 1035}

\* float64: hue*60 is held just below an exact tie for these colours of the
\* modelled inputs (channels in hundredths)
HueBelowTie == {<<0, 9800, 400>>, <<11900, 25500, 400>>}

\* CalculateHSL's three consecutive ifs: a later channel that equals max
\* overwrites the hue of an earlier one, so the last match decides.
\* Returns <<numerator, denominator>> of hue*60 (before rounding).
HueFraction(red, green, blue, max, min) ==
    LET d == max - min
    IN  IF blue = max THEN <<60 * (4 * d + (red - green)), d>>
        ELSE IF green = max THEN <<60 * (2 * d + (blue - red)), d>>
        ELSE IF red = max THEN <<60 * (green - blue), d>>
        ELSE <<0, d>>

CalculateHSL(rgb, luminosity, delta) ==
    LET lo    == Min3(rgb.Red, rgb.Green, rgb.Blue)
        hi    == Max3(rgb.Red, rgb.Green, rgb.Blue)
        min   == Round3(lo)
        max   == Round3(hi)
        red   == Round3(rgb.Red)
        green == Round3(rgb.Green)
        blue  == Round3(rgb.Blue)
        \* delta is (hi - lo)/25500 unrounded; max and min are rounded
        sat3  == IF luminosity < 50
                 THEN Round(10000 * delta, RGBMax * (max + min), SatBelowTie(hi, lo))
                 ELSE Round(10000 * delta, RGBMax * (2000 - max - min), SatBelowTie(hi, lo))
        hue   == HueFraction(red, green, blue, max, min)
    IN  [ hue        |-> Round(hue[1], hue[2],
                               <<rgb.Red, rgb.Green, rgb.Blue>> \in HueBelowTie),
          saturation |-> Round(sat3, 10, sat3 \in Round2BelowTie),
          luminosity |-> luminosity ]

\* variant: the sum of max and min is not halved
ConvertRGBToHSLNoHalf(rgb) ==
    LET min        == Min3(rgb.Red, rgb.Green, rgb.Blue)
        max        == Max3(rgb.Red, rgb.Green, rgb.Blue)
        delta      == max - min
        luminosity == Round(max + min, RGBMax, FALSE)
    IN  IF delta > 0 THEN CalculateHSL(rgb, luminosity, delta)
        ELSE [hue |-> 0, saturation |-> 0, luminosity |-> luminosity]

ConvertRGBToHSL(rgb) ==
    LET min        == Min3(rgb.Red, rgb.Green, rgb.Blue)
        max        == Max3(rgb.Red, rgb.Green, rgb.Blue)
        delta      == max - min
        luminosity == Round(max + min, 2 * RGBMax, FALSE)
    IN  IF delta > 0 THEN CalculateHSL(rgb, luminosity, delta)
        ELSE [hue |-> 0, saturation |-> 0, luminosity |-> luminosity]

(***************************************************************************)
(* Hue rotation                                                            *)
(***************************************************************************)
\* variant: the earlier revision's rotation, |hue + off - 360|
transformHueAbs(hsl, off) ==
    [ hue        |-> Abs((hsl.hue + off) - 360),
      saturation |-> hsl.saturation,
      luminosity |-> hsl.luminosity ]

\* math.Mod(x, y), y > 0: the remainder has the sign of x
Mod(x, y) == IF x < 0 THEN -((-x) % y) ELSE x % y

transformHue(hsl, off) ==
    [ hue        |-> Mod(hsl.hue + off, 360),
      saturation |-> hsl.saturation,
      luminosity |-> hsl.luminosity ]

(***************************************************************************)
(* HSL -> RGB                                                              *)
(* temp1, temp2 are held in units of 1/10000, the wrapped hue fractions    *)
(* tempRGB in thousandths.                                                 *)
(***************************************************************************)
\* float64: hue/360 + 1/3 is held just below a tie of the 2nd decimal
TempRedBelowTie == {87, 159, 249, 339}

\* float64: hue/360 - 1/3 is held just nearer zero than a tie of the 2nd decimal
TempBlueBelowTie == {3, 21, 39, 75, 93, 111, 219, 309, 327}

\* float64: temp1 (resp. temp2) is held just below a tie of the 3rd decimal
\* for these <<temp1, temp2>> of the modelled inputs
Temp1BelowTie == {}

Temp2BelowTie == {<<165, 35>>, <<855, 145>>, <<925, 75>>}

\* float64: the interpolated value is held just below a tie of the 3rd
\* decimal for these <<raw, temp1, temp2>> of the modelled inputs; raw is the
\* hue fraction before calculateRGB's wrap (in float64, 1.16 - 1 is not the
\* float64 nearest 0.16, so the wrap is part of the key)
RisingBelowTie ==
    {<<0, 165, 35>>, <<0, 855, 145>>, <<0, 925, 75>>, <<75, 9950, 50>>,
     <<1140, 4875, 125>>, <<1160, 4875, 125>>}

FallingBelowTie ==
    {<<500, 625, 375>>, <<500, 855, 145>>, <<500, 4875, 125>>, <<500, 4925, 75>>,
     <<500, 9955, 1045>>, <<520, 4875, 125>>, <<525, 4750, 250>>, <<540, 4875, 125>>, <<560, 4875, 125>>,
     <<600, 925, 75>>, <<600, 4875, 125>>, <<600, 4925, 75>>, <<620, 4875, 125>>,
     <<640, 4875, 125>>, <<660, 4875, 125>>}

\* tempColor: the wrapped hue fraction; raw: the same before the wrap
calculateRGBByColor(tempColor, tempVar, raw) ==
    LET temp1 == tempVar[1]
        temp2 == tempVar[2]
        key   == <<raw, temp1, temp2>>
    IN  IF tempColor * 6 < 1000
        THEN Round(temp2 * 1000 + (temp1 - temp2) * 6 * tempColor, 10000,
                   key \in RisingBelowTie)
        ELSE IF tempColor * 2 < 1000
        THEN Round(temp1, 10, <<temp1, temp2>> \in Temp1BelowTie)
        ELSE IF tempColor * 3 < 2000
        THEN Round(temp2 * 1000 + (temp1 - temp2) * (4000 - 6 * tempColor), 10000,
                   key \in FallingBelowTie)
        ELSE Round(temp2, 10, <<temp1, temp2>> \in Temp2BelowTie)

\* variant: a negative fraction is not wrapped
WrapHigh(tempColor) ==
    IF tempColor > 1000 THEN tempColor - 1000 ELSE tempColor

\* the single-step wrap of calculateRGB's loop
Wrap(tempColor) ==
    IF tempColor < 0 THEN tempColor + 1000
    ELSE IF tempColor > 1000 THEN tempColor - 1000
    ELSE tempColor

calculateRGB(tempRGB, tempVar) ==
    LET red   == 100 * Round(calculateRGBByColor(Wrap(tempRGB[1]), tempVar, tempRGB[1]) * RGBMax, 1000, FALSE)
        green == 100 * Round(calculateRGBByColor(Wrap(tempRGB[2]), tempVar, tempRGB[2]) * RGBMax, 1000, FALSE)
        blue  == 100 * Round(calculateRGBByColor(Wrap(tempRGB[3]), tempVar, tempRGB[3]) * RGBMax, 1000, FALSE)
    IN  [Red |-> red, Green |-> green, Blue |-> blue, Hex |-> generateHex(red, green, blue)]

ConvertHSLToRGB(hsl) ==
    IF hsl.hue > 0 /\ hsl.saturation > 0
    THEN LET temp1 == IF hsl.luminosity < 50
                      THEN hsl.luminosity * (100 + hsl.saturation)
                      ELSE (hsl.luminosity + hsl.saturation) * 100
                           - hsl.luminosity * hsl.saturation
             temp2 == 2 * hsl.luminosity * 100 - temp1
             tempRed   == 10 * Round(100 * (hsl.hue + 120), 360, hsl.hue \in TempRedBelowTie)
             tempGreen == Round(1000 * hsl.hue, 360, FALSE)
             tempBlue  == 10 * Round(100 * (hsl.hue - 120), 360, hsl.hue \in TempBlueBelowTie)
         IN  calculateRGB(<<tempRed, tempGreen, tempBlue>>, <<temp1, temp2>>)
    ELSE [ Red   |-> hsl.luminosity * RGBMax,
           Green |-> hsl.luminosity * RGBMax,
           Blue  |-> hsl.luminosity * RGBMax,
           Hex   |-> generateHex(hsl.luminosity * RGBMax, hsl.luminosity * RGBMax,
                                 hsl.luminosity * RGBMax) ]

(***************************************************************************)
(* Schemes                                                                 *)
(***************************************************************************)
\* variant: the copy's Hex is rendered anew instead of taken from the input
generateInitialRGBAndHSLForColorRehex(c) ==
    LET dcToRGB == [Red |-> c.Red, Green |-> c.Green, Blue |-> c.Blue,
                    Hex |-> generateHex(c.Red, c.Green, c.Blue)]
    IN  << <<dcToRGB>>, ConvertRGBToHSL(dcToRGB) >>

\* returns <<colors, hsl>>
generateInitialRGBAndHSLForColor(c) ==
    LET dcToRGB == [Red |-> c.Red, Green |-> c.Green, Blue |-> c.Blue, Hex |-> c.Hex]
    IN  << <<dcToRGB>>, ConvertRGBToHSL(dcToRGB) >>

CalculateComplimentaryColorScheme(dc) ==
    LET init == generateInitialRGBAndHSLForColor(dc)
        transformedHSL == transformHue(init[2], 180)
    IN  Append(init[1], ConvertHSLToRGB(transformedHSL))

CalculateSplitComplimentaryColorScheme(dc) ==
    LET init == generateInitialRGBAndHSLForColor(dc)
        transformedHSLCompliment1 == transformHue(init[2], 150)
        transformedHSLCompliment2 == transformHue(init[2], 210)
    IN  init[1] \o << ConvertHSLToRGB(transformedHSLCompliment1),
                      ConvertHSLToRGB(transformedHSLCompliment2) >>

CalculateTriadicColorScheme(dc) ==
    LET init == generateInitialRGBAndHSLForColor(dc)
        transformedTriadicColor1 == transformHue(init[2], 120)
        transformedTriadicColor2 == transformHue(init[2], 240)
    IN  init[1] \o << ConvertHSLToRGB(transformedTriadicColor1),
                      ConvertHSLToRGB(transformedTriadicColor2) >>

RECURSIVE Dedup(_)
Dedup(cs) ==
    IF cs = <<>> THEN <<>>
    ELSE LET rest == Dedup(Tail(cs))
         IN  IF \E i \in 1..Len(rest) : rest[i] = Head(cs) THEN rest ELSE <<Head(cs)>> \o rest

\* variant: equal colours are appended once
CalculateTetradicColorSchemeDedup(dc) ==
    LET init == generateInitialRGBAndHSLForColor(dc)
    IN  init[1] \o Dedup(<< ConvertHSLToRGB(transformHue(init[2], 60)),
                            ConvertHSLToRGB(transformHue(init[2], 180)),
                            ConvertHSLToRGB(transformHue(init[2], 240)) >>)

CalculateTetradicColorScheme(dc) ==
    LET init == generateInitialRGBAndHSLForColor(dc)
        transformedTetradicColor1 == transformHue(init[2], 60)
        transformedTetradicColor2 == transformHue(init[2], 180)
        transformedTetradicColor3 == transformHue(init[2], 240)
    IN  init[1] \o << ConvertHSLToRGB(transformedTetradicColor1),
                      ConvertHSLToRGB(transformedTetradicColor2),
                      ConvertHSLToRGB(transformedTetradicColor3) >>

\* the offsets each scheme applies, in order
SchemeOffsets(name) ==
    CASE name = "CalculateComplimentaryColorScheme" -> <<180>>
      [] name = "CalculateSplitComplimentaryColorScheme" -> <<150, 210>>
      [] name = "CalculateTriadicColorScheme" -> <<120, 240>>
      [] name = "CalculateTetradicColorScheme" -> <<60, 180, 240>>

(***************************************************************************)
(* Callers.  A caller holds one Color and makes calls with it, one call a  *)
(* step; the state records the last call: its name, arguments and result.  *)
(***************************************************************************)
\* channels 0..MaxDark and the landmark values below are the modelled inputs
MaxDark == 4

Landmarks == {9, 15, 16, 24, 98, 119, 126, 128, 247, 254, 255}

Channels == (0..MaxDark) \cup Landmarks

\* a Color as a caller passes it: whole channels; Hex either left empty
\* (calculator_test.go:204) or as CalculatePredominantColor fills it in
InputColors ==
    UNION { { [Red |-> 100 * c[1], Green |-> 100 * c[2], Blue |-> 100 * c[3], Hex |-> ""],
              [Red |-> 100 * c[1], Green |-> 100 * c[2], Blue |-> 100 * c[3],
               Hex |-> generateHex(100 * c[1], 100 * c[2], 100 * c[3])] } :
            c \in Channels \X Channels \X Channels }

\* the offsets the scheme functions pass to transformHue, and a full turn
Offsets == {60, 120, 150, 180, 210, 240, 360}

NoHSL == [hue |-> -1000, saturation |-> -1000, luminosity |-> -1000]

NoColor == [Red |-> -100, Green |-> -100, Blue |-> -100, Hex |-> "none"]

VARIABLES
    dc,      \* the Color the caller holds and passes to every call
    op,      \* name of the last call
    hslArg,  \* its HSL argument (NoHSL when it takes none)
    off,     \* its offset argument (transformHue), else 0
    hsl,     \* the HSL it returned, else NoHSL
    color,   \* the Color it returned, else NoColor
    colors   \* the []Color it returned, else <<>>

coreVars == <<dc, op, hslArg, off, hsl, color, colors>>

(***************************************************************************)
(* CalculatePredominantColor: what its collaborators can return, and the   *)
(* state of one activation.  A nil pointer is <<>>, a pointer to x is      *)
(* <<x>>.                                                                  *)
(***************************************************************************)
\* at most MaxEntries dominant colours come back, with scores 0..MaxScore
\* hundredths
MaxEntries == 2

MaxScore == 2

NoError == "nil"

\* the errors the collaborators fail with
Errors == {"os error has occurRed. file not found",
           "unable to read from file",
           "unable to calculate image properties"}

\* col.Color values of the returned entries, channels in hundredths
EntryColors ==
    { [Red |-> 100 * 24, Green |-> 100 * 98, Blue |-> 100 * 119],
      [Red |-> 100 * 255, Green |-> 0, Blue |-> 0],
      [Red |-> 0, Green |-> 0, Blue |-> 0] }

\* pb.ColorInfo
ColorInfo == [Color : EntryColors, Score : 0..MaxScore]

\* properties.DominantColors.Colors
DominantColors == UNION { [1..n -> ColorInfo] : n \in 0..MaxEntries }

\* the protobuf getters return 0 on a nil *col.Color
GetRed(c) == IF c = <<>> THEN 0 ELSE c[1].Red

GetGreen(c) == IF c = <<>> THEN 0 ELSE c[1].Green

GetBlue(c) == IF c = <<>> THEN 0 ELSE c[1].Blue

\* the locals of an activation before its first statement
NewFrame ==
    [ f          |-> <<>>,      \* the opened file
      err        |-> NoError,
      properties |-> <<>>,      \* properties.DominantColors.Colors
      i          |-> 0,         \* entries the range loop has consumed
      max        |-> 0,
      c          |-> <<>>,
      deferred   |-> <<>> ]     \* calls registered with defer

NoReturn == [color |-> <<>>, err |-> "not returned"]

VARIABLES
    at,      \* the statement CalculatePredominantColor is at
    frame,   \* its locals
    log,     \* the calls it made on its collaborators and on the file, in order
    ret      \* what it returned

ioVars == <<at, frame, log, ret>>


\* no activation of CalculatePredominantColor
IdleIO ==
    /\ at = "idle"
    /\ frame = NewFrame
    /\ log = <<>>
    /\ ret = NoReturn

(***************************************************************************)
(* Goroutines that call the conversions and the schemes on one shared      *)
(* *PaletteCalculator, with the same *Color (dc) and *HSL (hsl), one call   *)
(* each.  Other goroutines run between the steps of a call.                *)
(***************************************************************************)
NGoroutines == 2

Goroutines == 1..NGoroutines

Functions ==
    {"ConvertRGBToHSL", "ConvertHSLToRGB",
     "CalculateComplimentaryColorScheme", "CalculateSplitComplimentaryColorScheme",
     "CalculateTriadicColorScheme", "CalculateTetradicColorScheme"}

\* the Colors the goroutines share
SharedColors ==
    { [Red |-> 100 * c[1], Green |-> 100 * c[2], Blue |-> 100 * c[3],
       Hex |-> generateHex(100 * c[1], 100 * c[2], 100 * c[3])] :
      c \in {<<24, 98, 119>>, <<255, 0, 0>>, <<128, 128, 128>>, <<9, 126, 3>>} }

\* the fields of the PaletteCalculator
Fields ==
    [Calculator |-> "client", Reader |-> "VisionReader", Opener |-> "FileOpener",
     Context |-> "Background"]

\* the locals of a goroutine that is in no call
NoCall ==
    [ fn      |-> "none",
      at      |-> "idle",
      hsls    |-> <<>>,       \* the rotated HSLs still to convert
      colors  |-> <<>>,       \* the []Color built so far
      tempRGB |-> 0,          \* the slice ConvertHSLToRGB made (0: none)
      tempVar |-> <<0, 0>>,
      i       |-> 0,          \* index of calculateRGB's range loop
      result  |-> <<>> ]      \* what the call returned

\* variant: every call gets the same backing array for tempRGB
NewSliceShared(g) == 1

\* []float64{tempRed, tempGreen, tempBlue}: each call allocates its own
NewSlice(g) == g

\* temp1 and temp2 of ConvertHSLToRGB, in 1/10000
TempVarOf(h) ==
    LET temp1 == IF h.luminosity < 50
                 THEN h.luminosity * (100 + h.saturation)
                 ELSE (h.luminosity + h.saturation) * 100 - h.luminosity * h.saturation
    IN  <<temp1, 2 * h.luminosity * 100 - temp1>>

\* tempRed, tempGreen and tempBlue of ConvertHSLToRGB, in thousandths
TempRGBOf(h) ==
    << 10 * Round(100 * (h.hue + 120), 360, h.hue \in TempRedBelowTie),
       Round(1000 * h.hue, 360, FALSE),
       10 * Round(100 * (h.hue - 120), 360, h.hue \in TempBlueBelowTie) >>

VARIABLES
    receiver,   \* the fields of the shared PaletteCalculator
    goroutine,  \* the locals of each goroutine
    heap        \* the tempRGB slices: for each element the float64 it holds (v)
                \* and the fraction it was made from (raw)

goVars == <<receiver, goroutine, heap>>

vars == <<coreVars, ioVars, goVars>>

\* no goroutine is in a call
IdleGo ==
    /\ receiver = Fields
    /\ goroutine = [g \in Goroutines |-> NoCall]
    /\ heap = [g \in Goroutines |-> <<>>]

Init ==
    /\ dc \in InputColors
    /\ op = "new"
    /\ hslArg = NoHSL
    /\ off = 0
    /\ hsl = NoHSL
    /\ color = NoColor
    /\ colors = <<>>
    /\ IdleIO
    /\ IdleGo

CallConvertRGBToHSL ==
    /\ op' = "ConvertRGBToHSL"
    /\ hsl' = ConvertRGBToHSL(dc)
    /\ hslArg' = NoHSL
    /\ off' = 0
    /\ color' = NoColor
    /\ colors' = <<>>
    /\ UNCHANGED dc
    /\ UNCHANGED <<ioVars, goVars>>

\* transformHue is unexported: its argument is an HSL that ConvertRGBToHSL returned
CallTransformHue ==
    /\ op = "ConvertRGBToHSL"
    /\ \E o \in Offsets :
        /\ op' = "transformHue"
        /\ hslArg' = hsl
        /\ off' = o
        /\ hsl' = transformHue(hsl, o)
        /\ UNCHANGED <<dc, color, colors>>
        /\ UNCHANGED <<ioVars, goVars>>

\* HSL has unexported fields: a caller holds one only from an earlier call
CallConvertHSLToRGB ==
    /\ op \in {"ConvertRGBToHSL", "transformHue"}
    /\ op' = "ConvertHSLToRGB"
    /\ hslArg' = hsl
    /\ color' = ConvertHSLToRGB(hsl)
    /\ hsl' = NoHSL
    /\ off' = 0
    /\ UNCHANGED <<dc, colors>>
    /\ UNCHANGED <<ioVars, goVars>>

CallScheme(name, result) ==
    /\ op' = name
    /\ colors' = result
    /\ hslArg' = NoHSL
    /\ off' = 0
    /\ hsl' = NoHSL
    /\ color' = NoColor
    /\ UNCHANGED dc
    /\ UNCHANGED <<ioVars, goVars>>

CallComplimentary ==
    CallScheme("CalculateComplimentaryColorScheme", CalculateComplimentaryColorScheme(dc))

CallSplitComplimentary ==
    CallScheme("CalculateSplitComplimentaryColorScheme",
               CalculateSplitComplimentaryColorScheme(dc))

CallTriadic ==
    CallScheme("CalculateTriadicColorScheme", CalculateTriadicColorScheme(dc))

CallTetradic ==
    CallScheme("CalculateTetradicColorScheme", CalculateTetradicColorScheme(dc))

Next ==
    \/ CallConvertRGBToHSL
    \/ CallTransformHue
    \/ CallConvertHSLToRGB
    \/ CallComplimentary
    \/ CallSplitComplimentary
    \/ CallTriadic
    \/ CallTetradic

Spec == Init /\ [][Next]_vars

TypeOK ==
    /\ dc \in InputColors
    /\ op \in {"new", "ConvertRGBToHSL", "transformHue", "ConvertHSLToRGB",
               "CalculateComplimentaryColorScheme", "CalculateSplitComplimentaryColorScheme",
               "CalculateTriadicColorScheme", "CalculateTetradicColorScheme"}
    /\ off \in Offsets \cup {0}
    /\ Len(colors) \in 0..4

(***************************************************************************)
(* CalculatePredominantColor, statement by statement                       *)
(***************************************************************************)
\* return (value, e): the deferred calls run before the caller gets control
Return(value, e) ==
    /\ ret' = [color |-> value, err |-> e]
    /\ at' = IF frame'.deferred = <<>> THEN "returned" ELSE "deferred"

CallCalculatePredominantColor ==
    /\ at \in {"idle", "returned"}
    /\ at' = "Open"
    /\ frame' = NewFrame
    /\ log' = <<>>
    /\ ret' = NoReturn
    /\ UNCHANGED <<coreVars, goVars>>

\* variant: the Close is deferred before the error is looked at
OpenDeferFirst ==
    /\ at = "Open"
    /\ \E e \in Errors \cup {NoError} :
        /\ log' = Append(log, [call |-> "Open", err |-> e])
        /\ IF e # NoError
           THEN /\ frame' = [frame EXCEPT !.err = e, !.deferred = <<"Close">>]
                /\ Return(<<>>, e)
           ELSE /\ frame' = [frame EXCEPT !.err = e, !.f = <<"file">>,
                                          !.deferred = <<"Close">>]
                /\ at' = "NewImageFromReader"
                /\ UNCHANGED ret
    /\ UNCHANGED <<coreVars, goVars>>

Open ==
    /\ at = "Open"
    /\ \E e \in Errors \cup {NoError} :
        /\ log' = Append(log, [call |-> "Open", err |-> e])
        /\ IF e # NoError
           THEN /\ frame' = [frame EXCEPT !.err = e]
                /\ Return(<<>>, e)
           ELSE /\ frame' = [frame EXCEPT !.err = e, !.f = <<"file">>,
                                          !.deferred = <<"Close">>]
                /\ at' = "NewImageFromReader"
                /\ UNCHANGED ret
    /\ UNCHANGED <<coreVars, goVars>>

\* variant: a Reader failure is not looked at
NewImageFromReaderUnchecked ==
    /\ at = "NewImageFromReader"
    /\ \E e \in Errors \cup {NoError} :
        /\ log' = Append(log, [call |-> "NewImageFromReader", err |-> e])
        /\ frame' = [frame EXCEPT !.err = e]
        /\ at' = "DetectImageProperties"
        /\ UNCHANGED ret
    /\ UNCHANGED <<coreVars, goVars>>

NewImageFromReader ==
    /\ at = "NewImageFromReader"
    /\ \E e \in Errors \cup {NoError} :
        /\ log' = Append(log, [call |-> "NewImageFromReader", err |-> e])
        /\ frame' = [frame EXCEPT !.err = e]
        /\ IF e # NoError
           THEN Return(<<>>, e)
           ELSE /\ at' = "DetectImageProperties"
                /\ UNCHANGED ret
    /\ UNCHANGED <<coreVars, goVars>>

DetectImageProperties ==
    /\ at = "DetectImageProperties"
    /\ \/ \E e \in Errors :
            /\ log' = Append(log, [call |-> "DetectImageProperties", err |-> e])
            /\ frame' = [frame EXCEPT !.err = e]
            /\ Return(<<>>, e)
       \/ \E colours \in DominantColors :
            /\ log' = Append(log, [call |-> "DetectImageProperties", err |-> NoError])
            /\ frame' = [frame EXCEPT !.err = NoError, !.properties = colours,
                                      !.i = 0, !.max = 0, !.c = <<>>]
            /\ at' = "range"
            /\ UNCHANGED ret
    /\ UNCHANGED <<coreVars, goVars>>

\* variant: an entry that equals the greatest score so far replaces it
RangeLastWins ==
    /\ at = "range"
    /\ frame.i < Len(frame.properties)
    /\ LET quantized == frame.properties[frame.i + 1]
       IN  frame' = IF quantized.Score >= frame.max
                    THEN [frame EXCEPT !.i = @ + 1, !.max = quantized.Score,
                                       !.c = <<quantized.Color>>]
                    ELSE [frame EXCEPT !.i = @ + 1]
    /\ UNCHANGED <<at, log, ret>>
    /\ UNCHANGED <<coreVars, goVars>>

\* one iteration of the loop over properties.DominantColors.Colors
Range ==
    /\ at = "range"
    /\ frame.i < Len(frame.properties)
    /\ LET quantized == frame.properties[frame.i + 1]
       IN  frame' = IF quantized.Score > frame.max
                    THEN [frame EXCEPT !.i = @ + 1, !.max = quantized.Score,
                                       !.c = <<quantized.Color>>]
                    ELSE [frame EXCEPT !.i = @ + 1]
    /\ UNCHANGED <<at, log, ret>>
    /\ UNCHANGED <<coreVars, goVars>>

\* the loop is over: fill dc from c and return it
ReturnDominantColor ==
    /\ at = "range"
    /\ frame.i = Len(frame.properties)
    /\ UNCHANGED <<frame, log>>
    /\ LET red   == GetRed(frame.c)
           green == GetGreen(frame.c)
           blue  == GetBlue(frame.c)
       IN  Return(<< [Red |-> red, Green |-> green, Blue |-> blue,
                      Hex |-> generateHex(red, green, blue)] >>, NoError)
    /\ UNCHANGED <<coreVars, goVars>>

\* defer f.Close()
Close ==
    /\ at = "deferred"
    /\ frame.deferred # <<>>
    /\ log' = Append(log, [call |-> Head(frame.deferred), err |-> NoError])
    /\ frame' = [frame EXCEPT !.deferred = Tail(@)]
    /\ at' = IF Tail(frame.deferred) = <<>> THEN "returned" ELSE "deferred"
    /\ UNCHANGED ret
    /\ UNCHANGED <<coreVars, goVars>>

\* a caller that only asks for predominant colours holds no Color of its own
InitIO ==
    /\ dc = NoColor
    /\ op = "new"
    /\ hslArg = NoHSL
    /\ off = 0
    /\ hsl = NoHSL
    /\ color = NoColor
    /\ colors = <<>>
    /\ IdleIO
    /\ IdleGo

NextIO ==
    \/ CallCalculatePredominantColor
    \/ Open
    \/ NewImageFromReader
    \/ DetectImageProperties
    \/ Range
    \/ ReturnDominantColor
    \/ Close

SpecIO == InitIO /\ [][NextIO]_vars


(***************************************************************************)
(* The calls of a goroutine, step by step                                  *)
(***************************************************************************)
\* the call of g returns value
ReturnTo(g, value) ==
    goroutine' = [goroutine EXCEPT ![g].at = "returned", ![g].result = value]

\* g starts its call, of fn with the shared pointers
Go(g) ==
    /\ goroutine[g].at = "idle"
    /\ \E fn \in Functions :
        goroutine' = [goroutine EXCEPT ![g] =
            [NoCall EXCEPT !.fn = fn,
                           !.at = IF fn \in {"ConvertRGBToHSL", "ConvertHSLToRGB"}
                                  THEN fn
                                  ELSE "generateInitialRGBAndHSLForColor"]]
    /\ UNCHANGED <<heap, receiver>>
    /\ UNCHANGED <<coreVars, ioVars>>

\* ConvertRGBToHSL(dc) called directly: reads *dc, returns a new HSL
StepConvertRGBToHSL(g) ==
    /\ goroutine[g].at = "ConvertRGBToHSL"
    /\ ReturnTo(g, <<ConvertRGBToHSL(dc)>>)
    /\ UNCHANGED <<heap, receiver>>
    /\ UNCHANGED <<coreVars, ioVars>>

\* a scheme function: copies *dc, converts the copy, rotates the hue by each
\* of its offsets
StepGenerateInitial(g) ==
    /\ goroutine[g].at = "generateInitialRGBAndHSLForColor"
    /\ LET init == generateInitialRGBAndHSLForColor(dc)
           offs == SchemeOffsets(goroutine[g].fn)
       IN  goroutine' = [goroutine EXCEPT
               ![g].colors = init[1],
               ![g].hsls = [k \in 1..Len(offs) |-> transformHue(init[2], offs[k])],
               ![g].at = "ConvertHSLToRGB"]
    /\ UNCHANGED <<heap, receiver>>
    /\ UNCHANGED <<coreVars, ioVars>>

\* the HSL the ConvertHSLToRGB that g is in was called with
ArgHSL(g) ==
    IF goroutine[g].fn = "ConvertHSLToRGB" THEN hsl ELSE Head(goroutine[g].hsls)

\* ConvertHSLToRGB returns c: to the caller, or into the scheme's append
Converted(g, c) ==
    IF goroutine[g].fn = "ConvertHSLToRGB"
    THEN ReturnTo(g, <<c>>)
    ELSE IF Len(goroutine[g].hsls) = 1
         THEN goroutine' = [goroutine EXCEPT
                  ![g].at = "returned",
                  ![g].hsls = <<>>,
                  ![g].colors = Append(@, c),
                  ![g].result = Append(goroutine[g].colors, c)]
         ELSE goroutine' = [goroutine EXCEPT
                  ![g].at = "ConvertHSLToRGB",
                  ![g].hsls = Tail(@),
                  ![g].colors = Append(@, c)]

\* ConvertHSLToRGB up to its call of calculateRGB
StepConvertHSLToRGB(g) ==
    /\ goroutine[g].at = "ConvertHSLToRGB"
    /\ LET h == ArgHSL(g)
       IN  IF h.hue > 0 /\ h.saturation > 0
           THEN /\ heap' = [heap EXCEPT ![NewSlice(g)] =
                              [k \in 1..3 |-> [v |-> TempRGBOf(h)[k], raw |-> TempRGBOf(h)[k]]]]
                /\ goroutine' = [goroutine EXCEPT
                       ![g].at = "calculateRGB",
                       ![g].tempRGB = NewSlice(g),
                       ![g].tempVar = TempVarOf(h),
                       ![g].i = 0]
           ELSE /\ Converted(g, [ Red   |-> h.luminosity * RGBMax,
                                  Green |-> h.luminosity * RGBMax,
                                  Blue  |-> h.luminosity * RGBMax,
                                  Hex   |-> generateHex(h.luminosity * RGBMax,
                                                        h.luminosity * RGBMax,
                                                        h.luminosity * RGBMax) ])
                /\ UNCHANGED heap
    /\ UNCHANGED receiver
    /\ UNCHANGED <<coreVars, ioVars>>

\* calculateRGB's loop: each tempRGB[i] is read and written back
StepRange(g) ==
    /\ goroutine[g].at = "calculateRGB"
    /\ goroutine[g].i < 3
    /\ LET a == goroutine[g].tempRGB
       IN  heap' = [heap EXCEPT ![a] = [k \in 1..3 |-> [heap[a][k] EXCEPT !.v = Wrap(@)]]]
    /\ goroutine' = [goroutine EXCEPT ![g].i = 3]
    /\ UNCHANGED receiver
    /\ UNCHANGED <<coreVars, ioVars>>

\* calculateRGB after its loop: the three channels from tempRGB and tempVar
StepChannels(g) ==
    /\ goroutine[g].at = "calculateRGB"
    /\ goroutine[g].i = 3
    /\ LET t == heap[goroutine[g].tempRGB]
           tempVar == goroutine[g].tempVar
           red   == 100 * Round(calculateRGBByColor(t[1].v, tempVar, t[1].raw) * RGBMax, 1000, FALSE)
           green == 100 * Round(calculateRGBByColor(t[2].v, tempVar, t[2].raw) * RGBMax, 1000, FALSE)
           blue  == 100 * Round(calculateRGBByColor(t[3].v, tempVar, t[3].raw) * RGBMax, 1000, FALSE)
       IN  Converted(g, [Red |-> red, Green |-> green, Blue |-> blue,
                         Hex |-> generateHex(red, green, blue)])
    /\ UNCHANGED <<heap, receiver>>
    /\ UNCHANGED <<coreVars, ioVars>>

\* callers that share a Color and the HSL ConvertRGBToHSL returned for it
InitGo ==
    /\ dc \in SharedColors
    /\ op = "ConvertRGBToHSL"
    /\ hslArg = NoHSL
    /\ off = 0
    /\ hsl = ConvertRGBToHSL(dc)
    /\ color = NoColor
    /\ colors = <<>>
    /\ IdleIO
    /\ IdleGo

NextGo ==
    \E g \in Goroutines :
        \/ Go(g)
        \/ StepConvertRGBToHSL(g)
        \/ StepGenerateInitial(g)
        \/ StepConvertHSLToRGB(g)
        \/ StepRange(g)
        \/ StepChannels(g)

SpecGo == InitGo /\ [][NextGo]_vars


(***************************************************************************)
(* Properties                                                              *)
(***************************************************************************)
SchemeNames ==
    {"CalculateComplimentaryColorScheme", "CalculateSplitComplimentaryColorScheme",
     "CalculateTriadicColorScheme", "CalculateTetradicColorScheme"}

IsGray(c) == c.Red = c.Green /\ c.Green = c.Blue

\* the last call converted ConvertRGBToHSL(dc) back, without a rotation in between
RoundTripped == op = "ConvertHSLToRGB" /\ hslArg = ConvertRGBToHSL(dc)

\* C1: each scheme function returns its fixed number of colours (2, 3, 3, 4)
\* for every input, grays included: nothing is dropped as a duplicate.
C1_SchemeCardinality ==
    /\ op = "CalculateComplimentaryColorScheme" => Len(colors) = 2
    /\ op = "CalculateSplitComplimentaryColorScheme" => Len(colors) = 3
    /\ op = "CalculateTriadicColorScheme" => Len(colors) = 3
    /\ op = "CalculateTetradicColorScheme" => Len(colors) = 4

\* a gray input, whose three derived colours coincide, still yields four
C1_Witness ==
    /\ op = "CalculateTetradicColorScheme"
    /\ IsGray(dc)
    /\ Len(colors) = 4
    /\ colors[2] = colors[3]
    /\ colors[3] = colors[4]

\* C2: the first element of every scheme result equals the input in Red,
\* Green, Blue and Hex.
C2_FirstIsInput ==
    op \in SchemeNames =>
        /\ Len(colors) >= 1
        /\ colors[1].Red = dc.Red
        /\ colors[1].Green = dc.Green
        /\ colors[1].Blue = dc.Blue
        /\ colors[1].Hex = dc.Hex

\* an input whose Hex is not what generateHex would render is passed through
C2_Witness ==
    /\ op \in SchemeNames
    /\ dc.Hex = ""
    /\ dc.Hex # generateHex(dc.Red, dc.Green, dc.Blue)
    /\ colors[1] = dc

\* C3: element i+1 of a scheme result is ConvertHSLToRGB of the input's HSL
\* with the hue replaced by (hue + offset_i) mod 360, offsets in the scheme's
\* order; the hue the program rotates to is that residue, in [0, 360).
C3_DerivedByModularRotation ==
    op \in SchemeNames =>
        LET h    == ConvertRGBToHSL(dc)
            offs == SchemeOffsets(op)
        IN  /\ Len(colors) = Len(offs) + 1
            /\ \A i \in 1..Len(offs) :
                 LET hue == (h.hue + offs[i]) % 360
                 IN  /\ transformHue(h, offs[i]).hue = hue
                     /\ hue >= 0 /\ hue < 360
                     /\ colors[i + 1] =
                          ConvertHSLToRGB([hue |-> hue, saturation |-> h.saturation,
                                           luminosity |-> h.luminosity])

\* a chromatic input whose hue is pushed past 360 by one offset and not by
\* another, and whose derived colours differ
C3_Witness ==
    /\ op = "CalculateTetradicColorScheme"
    /\ ConvertRGBToHSL(dc).hue + 60 < 360
    /\ ConvertRGBToHSL(dc).hue + 240 > 360
    /\ colors[2] # colors[4]
    /\ colors[2] # colors[3]

\* C4: converting a colour to HSL and back changes no channel by more than 1.
C4_RoundTripWithinOne ==
    RoundTripped =>
        /\ Abs(color.Red - dc.Red) <= 100
        /\ Abs(color.Green - dc.Green) <= 100
        /\ Abs(color.Blue - dc.Blue) <= 100

Hex2(x) ==
    LET n == Int64(x)
    IN  IF n \in 0..255
        THEN SubSeq(HexDigits, (n \div 16) + 1, (n \div 16) + 1)
             \o SubSeq(HexDigits, (n % 16) + 1, (n % 16) + 1)
        ELSE "??"

WellFormedHex(c) ==
    /\ Len(c.Hex) = 6
    /\ c.Hex = Hex2(c.Red) \o Hex2(c.Green) \o Hex2(c.Blue)

\* C6: the Hex of every Color the program produces is the six-character,
\* zero-padded rendering of its Red, Green and Blue.
C6_HexSixDigits ==
    /\ op = "ConvertHSLToRGB" => WellFormedHex(color)
    /\ op \in SchemeNames => \A i \in 2..Len(colors) : WellFormedHex(colors[i])

\* C7: the hue ConvertRGBToHSL returns lies in [0, 360).
C7_HueInRange ==
    op = "ConvertRGBToHSL" => (hsl.hue >= 0 /\ hsl.hue < 360)

\* C8: the saturation and luminosity ConvertRGBToHSL returns lie in [0, 1].
C8_SaturationLuminosityInRange ==
    op = "ConvertRGBToHSL" =>
        /\ hsl.saturation >= 0 /\ hsl.saturation <= 100
        /\ hsl.luminosity >= 0 /\ hsl.luminosity <= 100

InChannelRange(x) == x >= 0 /\ x <= 100 * RGBMax

\* C9: every channel of every Color of a scheme result lies in [0, 255].
C9_ChannelsInRange ==
    op \in SchemeNames =>
        \A i \in 1..Len(colors) :
            /\ InChannelRange(colors[i].Red)
            /\ InChannelRange(colors[i].Green)
            /\ InChannelRange(colors[i].Blue)

\* an input whose saturation came out above 1, with a derived colour that
\* touches an end of the range
C9_Witness ==
    /\ op \in SchemeNames
    /\ ConvertRGBToHSL(dc).saturation > 100
    /\ \E i \in 2..Len(colors) :
         /\ colors[i] # colors[1]
         /\ {colors[i].Red, colors[i].Green, colors[i].Blue} \cap {0, 100 * RGBMax} # {}

\* C10: rotating an HSL that ConvertRGBToHSL returned by 360 gives it back.
C10_FullTurnIsIdentity ==
    (op = "transformHue" /\ off = 360) => hsl = hslArg

(***************************************************************************)
(* Properties of CalculatePredominantColor                                 *)
(***************************************************************************)
Collaborators == <<"Open", "NewImageFromReader", "DetectImageProperties">>

\* the collaborator calls of the activation, in order, each with its error
Made == SelectSeq(log, LAMBDA r : r.call # "Close")

\* the number of times the file was closed
Closes == Len(SelectSeq(log, LAMBDA r : r.call = "Close"))

\* C11: the collaborators are called in the order Open, NewImageFromReader,
\* DetectImageProperties; the first failure ends the calls and is returned
\* as (nil, that error); a non-nil Color is returned only after all three
\* succeeded.
C11_StopsAtFirstFailure ==
    /\ Len(Made) <= Len(Collaborators)
    /\ \A k \in 1..Len(Made) : Made[k].call = Collaborators[k]
    /\ \A k \in 1..(Len(Made) - 1) : Made[k].err = NoError
    /\ (Made # <<>> /\ Made[Len(Made)].err # NoError) =>
          /\ at \in {"deferred", "returned"}
          /\ ret = [color |-> <<>>, err |-> Made[Len(Made)].err]
    /\ at = "returned" => Made # <<>>
    /\ ret.color # <<>> =>
          /\ Len(Made) = Len(Collaborators)
          /\ \A k \in 1..Len(Made) : Made[k].err = NoError

\* the Reader failed after a successful Open: its error came back and the
\* Calculator was not called
C11_Witness ==
    /\ at = "returned"
    /\ Len(Made) = 2
    /\ Made[1].err = NoError
    /\ Made[2].err = "unable to read from file"
    /\ ret = [color |-> <<>>, err |-> "unable to read from file"]

\* the analysis succeeded and no returned entry has a score above 0
NoUsableColour ==
    /\ Len(Made) = Len(Collaborators)
    /\ Made[Len(Made)].err = NoError
    /\ \A k \in 1..Len(frame.properties) : frame.properties[k].Score <= 0

\* C12: when the analysis succeeds with an empty list, or with no score
\* above 0, CalculatePredominantColor returns a nil Color and a non-nil error.
C12_NoUsableColourFails ==
    (at = "returned" /\ NoUsableColour) =>
        /\ ret.color = <<>>
        /\ ret.err # NoError

\* the analysis succeeded and some returned entry has a score above 0
SomeUsableColour ==
    /\ Len(Made) = Len(Collaborators)
    /\ Made[Len(Made)].err = NoError
    /\ \E k \in 1..Len(frame.properties) : frame.properties[k].Score > 0

\* the earliest entry among those with the greatest score
Winner(entries) ==
    CHOOSE w \in 1..Len(entries) :
        /\ \A k \in 1..Len(entries) : entries[k].Score <= entries[w].Score
        /\ \A k \in 1..(w - 1) : entries[k].Score < entries[w].Score

\* C19: when all three steps succeed and some entry has a score above 0, the
\* returned Color has the Red, Green, Blue of the entry with the greatest
\* score, the earliest one when several share it, and the Hex generated from
\* those three values; the error is nil.
C19_GreatestScoreEarliest ==
    (at = "returned" /\ SomeUsableColour) =>
        LET won == frame.properties[Winner(frame.properties)].Color
        IN  /\ ret.err = NoError
            /\ ret.color = << [Red |-> won.Red, Green |-> won.Green, Blue |-> won.Blue,
                               Hex |-> generateHex(won.Red, won.Green, won.Blue)] >>

\* two entries share the greatest score and differ in colour: the first is
\* the one returned
C19_Witness ==
    /\ at = "returned"
    /\ SomeUsableColour
    /\ Len(frame.properties) = 2
    /\ frame.properties[1].Score = frame.properties[2].Score
    /\ frame.properties[1].Color # frame.properties[2].Color
    /\ ret.color # <<>>
    /\ ret.color[1].Red = frame.properties[1].Color.Red
    /\ ret.color[1].Hex = "186277"

\* C20: a file that Open returned is closed exactly once by the time
\* CalculatePredominantColor has returned, whether it returns a Color, the
\* Reader's error or the Calculator's error, and the Close is its last call;
\* when Open fails nothing is closed.
C20_ClosedExactlyOnce ==
    /\ Closes <= 1
    /\ at = "returned" =>
          IF Made[1].err = NoError
          THEN /\ Closes = 1
               /\ log[Len(log)].call = "Close"
          ELSE Closes = 0
    /\ (Made # <<>> /\ Made[1].err # NoError) => Closes = 0
    /\ (at \notin {"idle", "returned"} /\ Closes = 0 /\ Made # <<>>) =>
          frame.deferred = <<"Close">>

\* the Calculator failed: the file was closed once, after the failure
C20_Witness ==
    /\ at = "returned"
    /\ Len(Made) = 3
    /\ Made[3].err # NoError
    /\ ret.color = <<>>
    /\ Closes = 1
    /\ log[4].call = "Close"

(***************************************************************************)
(* Properties of the conversions, continued (specification Spec)           *)
(***************************************************************************)
\* the Color the temp1/temp2 formulas of ConvertHSLToRGB give for an HSL
ChromaticRGB(h) == calculateRGB(TempRGBOf(h), TempVarOf(h))

\* C14: for every HSL with saturation above 0, whatever its hue, the Color
\* ConvertHSLToRGB returns is the one of the chromatic temp1/temp2 formulas;
\* only saturation 0 gives the gray computed from luminosity alone.
C14_GrayOnlyWhenUnsaturated ==
    op = "ConvertHSLToRGB" =>
        IF hslArg.saturation > 0
        THEN color = ChromaticRGB(hslArg)
        ELSE IsGray(color)

\* C15: every channel of every Color that ConvertHSLToRGB returns is a whole
\* number.
C15_ChannelsAreIntegers ==
    op = "ConvertHSLToRGB" =>
        /\ color.Red % 100 = 0
        /\ color.Green % 100 = 0
        /\ color.Blue % 100 = 0

\* the saturation CalculateHSL returns when first = TRUE selects
\* delta / (max + min) and first = FALSE selects delta / (2 - max - min)
SaturationBy(rgb, first) ==
    LET lo   == Min3(rgb.Red, rgb.Green, rgb.Blue)
        hi   == Max3(rgb.Red, rgb.Green, rgb.Blue)
        min  == Round3(lo)
        max  == Round3(hi)
        sat3 == IF first
                THEN Round(10000 * (hi - lo), RGBMax * (max + min), SatBelowTie(hi, lo))
                ELSE Round(10000 * (hi - lo), RGBMax * (2000 - max - min), SatBelowTie(hi, lo))
    IN  Round(sat3, 10, sat3 \in Round2BelowTie)

\* C16: for a non-gray Color the saturation formula is selected by the exact
\* luminosity (max + min) / 2 of the normalized channels: delta / (max + min)
\* exactly when max + min < 1 (channels: max + min < 255), else
\* delta / (2 - max - min).
C16_SelectedByExactLuminosity ==
    (op = "ConvertRGBToHSL" /\ ~IsGray(dc)) =>
        hsl.saturation =
            SaturationBy(dc, Max3(dc.Red, dc.Green, dc.Blue)
                             + Min3(dc.Red, dc.Green, dc.Blue) < 100 * RGBMax)

\* the spec formulas on the unrounded channels, each field rounded once; the
\* hue branch and the saturation formula are the ones the program selects
ExactHSL(rgb) ==
    LET lo         == Min3(rgb.Red, rgb.Green, rgb.Blue)
        hi         == Max3(rgb.Red, rgb.Green, rgb.Blue)
        luminosity == Round(hi + lo, 2 * RGBMax, FALSE)
        hue        == HueFraction(rgb.Red, rgb.Green, rgb.Blue, hi, lo)
    IN  IF hi = lo
        THEN [hue |-> 0, saturation |-> 0, luminosity |-> luminosity]
        ELSE [ hue        |-> Round(hue[1], hue[2], FALSE),
               saturation |-> IF luminosity < 50
                              THEN Round(100 * (hi - lo), hi + lo, FALSE)
                              ELSE Round(100 * (hi - lo), 2 * 100 * RGBMax - hi - lo, FALSE),
               luminosity |-> luminosity ]

\* C17: each field ConvertRGBToHSL returns is the exact value of its formula
\* rounded once, half away from zero: hue to a whole degree, saturation and
\* luminosity to 2 decimals.
C17_RoundedOnce ==
    op = "ConvertRGBToHSL" => hsl = ExactHSL(dc)

\* the hue CalculateHSL returns if the first channel, in the order red, green,
\* blue, that equals max decides the branch
FirstMaxHue(rgb) ==
    LET min   == Round3(Min3(rgb.Red, rgb.Green, rgb.Blue))
        max   == Round3(Max3(rgb.Red, rgb.Green, rgb.Blue))
        red   == Round3(rgb.Red)
        green == Round3(rgb.Green)
        blue  == Round3(rgb.Blue)
        d     == max - min
        hue   == IF red = max THEN <<60 * (green - blue), d>>
                 ELSE IF green = max THEN <<60 * (2 * d + (blue - red)), d>>
                 ELSE <<60 * (4 * d + (red - green)), d>>
    IN  Round(hue[1], hue[2], <<rgb.Red, rgb.Green, rgb.Blue>> \in HueBelowTie)

\* C18: when two channels tie for the maximum, the hue is the one of the
\* branch of the first of them in the order red, green, blue.
C18_FirstMaxDecides ==
    (op = "ConvertRGBToHSL" /\ ~IsGray(dc)) => hsl.hue = FirstMaxHue(dc)

(***************************************************************************)
(* Properties of concurrent calls (specification SpecGo)                   *)
(***************************************************************************)
\* what a call of fn returns when it runs alone on the shared arguments
Alone(fn) ==
    CASE fn = "ConvertRGBToHSL" -> <<ConvertRGBToHSL(dc)>>
      [] fn = "ConvertHSLToRGB" -> <<ConvertHSLToRGB(hsl)>>
      [] fn = "CalculateComplimentaryColorScheme" -> CalculateComplimentaryColorScheme(dc)
      [] fn = "CalculateSplitComplimentaryColorScheme" ->
             CalculateSplitComplimentaryColorScheme(dc)
      [] fn = "CalculateTriadicColorScheme" -> CalculateTriadicColorScheme(dc)
      [] fn = "CalculateTetradicColorScheme" -> CalculateTetradicColorScheme(dc)

\* C13: in every interleaving of the steps of concurrent calls on one shared
\* PaletteCalculator, Color and HSL, no step changes the PaletteCalculator's
\* fields, the Color or the HSL, and every call returns what it returns when
\* it runs alone.
C13_InterleavingsAgree ==
    [][ /\ UNCHANGED <<dc, hsl, receiver>>
        /\ \A g \in Goroutines :
             goroutine'[g].at = "returned" =>
                 goroutine'[g].result = Alone(goroutine'[g].fn) ]_vars

\* a tetradic call has returned its four colours while a triadic call on the
\* same Color is inside calculateRGB with a slice of its own
C13_Witness ==
    /\ goroutine[1].fn = "CalculateTetradicColorScheme"
    /\ goroutine[1].at = "returned"
    /\ Len(goroutine[1].result) = 4
    /\ goroutine[1].result[2] # goroutine[1].result[1]
    /\ goroutine[2].fn = "CalculateTriadicColorScheme"
    /\ goroutine[2].at = "calculateRGB"
    /\ goroutine[2].i = 3
    /\ Len(goroutine[2].colors) = 1
    /\ heap[2] # heap[1]

====
